---- MODULE Spec2Model ----
(***************************************************************************)
(* Model of object_oriented_hardware/beaglebone_i2c.py: the per-bus        *)
(* singleton handles BBI2CBus0/1/2, the re-entrant bus lock, the           *)
(* retry_on_fail decorator around the six bus operations, their debug      *)
(* trace under BBI2CBus.DEBUG, and the smbus stub that replaces the        *)
(* transport when smbus cannot be imported; of                             *)
(* hardware_interfaces.py: the four capability interfaces and their        *)
(* simulated mode; and of temperature_sensors.py: the sensors that read    *)
(* one voltage from an analog input and convert it, in Python floats.      *)
(***************************************************************************)
EXTENDS Integers, Sequences, FiniteSets, TLC

\* ---------------------------------------------------------------- bounds
NumThreads == 2
MaxLen == 1
MaxHold == 1
MaxDepth == 3

Threads == 1..NumThreads

\* --------------------------------------------------------------- constants
\* the three singleton classes BBI2CBus0, BBI2CBus1, BBI2CBus2
Classes == {0, 1, 2}
\* bus numbers BBI2CBus.__init__ may be handed by a concrete subclass
BusNumInputs == {-1, 0, 1, 2, 3}
\* the six decorated operations
OpNames == {"write8", "write16", "write_list", "read8", "read16", "read_list"}
ReadOps == {"read8", "read16", "read_list"}
\* values a real device may answer a read with
ReadVals == {7}

VARIABLES
    smbus_available, \* whether `import smbus` succeeds in this process
    it,              \* Singleton: class -> its instance (an object id), NoObj = None
    handles,         \* class -> the BBI2CBus objects created of it, in order
    transports,      \* bus number -> the SMBus objects constructed for it, in order
    locks,           \* class -> the threading.RLock objects its instances created
    pc,              \* per thread: position
    req,             \* per thread: the constructor call in progress / its outcome
    ref,             \* per thread: the handle reference the caller holds
    hold,            \* per thread: how many `with bus._get_lock():` of its own the caller is inside
    op,              \* per thread: the bus operation in progress
    num_tries,       \* per thread: retry_on_fail_internal's local num_tries
    calls,           \* per thread: transport invocations made by the operation
    fails,           \* per thread: transport invocations that raised
    exc,             \* per thread: the exception the except clause is handling
    warns,           \* per thread: log.warning events emitted by the operation
    result,          \* per thread: how the operation ended
    DEBUG,           \* BBI2CBus.DEBUG
    outs,            \* per thread: how the operation's transport invocations ended, in order
    trace,           \* per thread: log.debug events emitted by the operation
    simulated,       \* HardwareInterface.simulated and each instance's own attribute
    simulated_input, \* input interface -> its simulated_input
    simulated_output,\* output interface -> its simulated_output
    icall,           \* the last read()/write(value) made on an interface
    sensor,          \* the temperature sensor the application has constructed
    scall            \* the read_temperature_* call in progress / its outcome

\* the application side: interfaces and sensors
appVars == <<simulated, simulated_input, simulated_output, icall, sensor, scall>>

vars == <<smbus_available, it, handles, transports, locks, pc, req, ref, hold,
          op, num_tries, calls, fails, exc, warns, result, DEBUG, outs, trace,
          appVars>>

\* ------------------------------------------------------------ value shapes
NoErr == [type |-> "none", origin |-> "none", attempt |-> 0, cause |-> 0]
\* an exception: its type, the code that raised it, the transport invocation
\* (1-based, within the operation) it belongs to, and __cause__ (the number of
\* the invocation whose error it was raised `from`; 0 = None: the code has no
\* `raise ... from`).
Err(type, origin, attempt) ==
    [type |-> type, origin |-> origin, attempt |-> attempt, cause |-> 0]

None == [tag |-> "None", int |-> 0, list |-> <<>>]
IntVal(n) == [tag |-> "int", int |-> n, list |-> <<>>]
ListVal(s) == [tag |-> "list", int |-> 0, list |-> s]

Repeat(v, n) == [i \in 1..n |-> v]

\* an object id is <<class or bus number, serial>>; NoObj is Python's None
NoObj == <<>>
NoReq == [cls |-> 0, early |-> FALSE, kind |-> "none", value |-> NoObj, err |-> NoErr]
NoOp == [name |-> "none", length |-> 0, h |-> NoObj]
NoResult == [kind |-> "none", value |-> None, err |-> NoErr, fellthrough |-> FALSE]

\* the BBI2CBus object, its lock's state and its transport, by object id
Handle(h) == handles[h[1]][h[2]]
LockOf(l) == locks[l[1]][l[2]]
TransportOf(x) == transports[x[1]][x[2]]

\* ---------------------------------------------------- Python float arithmetic
\* A Python float is an IEEE-754 binary64 number: sign, an integer
\* significand of at most MantissaBits bits, and an exponent; every
\* operation returns the exact result rounded to nearest, ties to even.
\* Significands are naturals written as bit sequences, least significant bit
\* first, without leading zero bits (the empty sequence is 0).
MantissaBits == 53

Bit(b, i) == IF i \in 1..Len(b) THEN b[i] ELSE 0

BTrim(b) ==
    LET n == CHOOSE i \in 0..Len(b) :
                 (i = 0 \/ b[i] = 1) /\ \A j \in (i + 1)..Len(b) : b[j] = 0
    IN  SubSeq(b, 1, n)

RECURSIVE BFromNat(_)
BFromNat(n) == IF n = 0 THEN <<>> ELSE <<n % 2>> \o BFromNat(n \div 2)

BShl(b, k) == IF b = <<>> THEN <<>> ELSE [i \in 1..k |-> 0] \o b

\* Sums, differences and products are computed on limbs of 14 bits (a limb
\* product stays below 2^28): limb k of b is the number its bits
\* 14(k-1)+1 .. 14k spell
Limb(b, k) ==
    LET w(j) == Bit(b, 14 * (k - 1) + j)
    IN  w(1) + 2 * w(2) + 4 * w(3) + 8 * w(4) + 16 * w(5) + 32 * w(6)
        + 64 * w(7) + 128 * w(8) + 256 * w(9) + 512 * w(10) + 1024 * w(11)
        + 2048 * w(12) + 4096 * w(13) + 8192 * w(14)

NLimbs(b) == (Len(b) + 13) \div 14

\* the bits of a sequence of limbs
FromLimbs(ls) ==
    BTrim([i \in 1..(14 * Len(ls)) |->
              (ls[((i - 1) \div 14) + 1] \div (2 ^ ((i - 1) % 14))) % 2])

\* limbs k..n of a + b with carry c into limb k
RECURSIVE AddLimbs(_, _, _, _, _)
AddLimbs(a, b, k, n, c) ==
    IF k > n THEN <<c>>
    ELSE LET t == Limb(a, k) + Limb(b, k) + c
         IN  <<t % 16384>> \o AddLimbs(a, b, k + 1, n, t \div 16384)

BAdd(a, b) ==
    FromLimbs(AddLimbs(a, b, 1, IF Len(a) < Len(b) THEN NLimbs(b) ELSE NLimbs(a), 0))

\* limbs k..n of a - b with borrow c out of limb k, for a >= b
RECURSIVE SubLimbs(_, _, _, _, _)
SubLimbs(a, b, k, n, c) ==
    IF k > n THEN <<>>
    ELSE LET t == Limb(a, k) - Limb(b, k) - c
         IN  <<t % 16384>> \o SubLimbs(a, b, k + 1, n, IF t < 0 THEN 1 ELSE 0)

BSub(a, b) == FromLimbs(SubLimbs(a, b, 1, NLimbs(a), 0))

BLess(a, b) ==
    \/ Len(a) < Len(b)
    \/ /\ Len(a) = Len(b)
       /\ \E i \in 1..Len(a) :
             a[i] < b[i] /\ \A j \in (i + 1)..Len(a) : a[j] = b[j]

\* the sum of the limb products a_i * b_(k+1-i), i = lo..hi: column k of a * b
RECURSIVE Column(_, _, _, _, _)
Column(a, b, k, lo, hi) ==
    IF lo > hi THEN 0
    ELSE Limb(a, lo) * Limb(b, k + 1 - lo) + Column(a, b, k, lo + 1, hi)

\* limbs k..n of a * b with carry c into limb k
RECURSIVE MulLimbs(_, _, _, _, _)
MulLimbs(a, b, k, n, c) ==
    IF k > n THEN <<c % 16384, c \div 16384>>
    ELSE LET lo == IF k > NLimbs(b) THEN k + 1 - NLimbs(b) ELSE 1
             hi == IF k > NLimbs(a) THEN NLimbs(a) ELSE k
             t == Column(a, b, k, lo, hi) + c
         IN  <<t % 16384>> \o MulLimbs(a, b, k + 1, n, t \div 16384)

\* a * b for significands (at most 4 limbs each)
BMul(a, b) ==
    IF a = <<>> \/ b = <<>> THEN <<>>
    ELSE FromLimbs(MulLimbs(a, b, 1, NLimbs(a) + NLimbs(b) - 1, 0))

\* the float (-1)^s * m * 2^e, with m odd (or zero: then s = 0 and e = 0), so
\* that equal numbers are equal records (0.0 == -0.0 in Python)
FNorm(s, m, e) ==
    IF m = <<>> THEN [s |-> 0, m |-> <<>>, e |-> 0]
    ELSE LET z == CHOOSE i \in 1..Len(m) : m[i] = 1 /\ \A j \in 1..(i - 1) : m[j] = 0
         IN  [s |-> s, m |-> SubSeq(m, z, Len(m)), e |-> e + z - 1]

\* the float literal n * 2^e of a small integer n
Float(n, e) == FNorm(IF n < 0 THEN 1 ELSE 0, BFromNat(IF n < 0 THEN -n ELSE n), e)

\* round (-1)^s * (m + f) * 2^e, 0 <= f < 1 and f # 0 iff sticky, to
\* MantissaBits bits, nearest, ties to even; inexact tells whether the result
\* differs from the exact value
FRound(s, m, e, sticky) ==
    LET k == Len(m) - MantissaBits
    IN  IF k <= 0
        THEN [f |-> FNorm(s, m, e), inexact |-> sticky]
        ELSE LET kept == SubSeq(m, k + 1, Len(m))
                 guard == m[k]
                 rest == sticky \/ \E i \in 1..(k - 1) : m[i] = 1
                 up == guard = 1 /\ (rest \/ kept[1] = 1)
             IN  [f |-> FNorm(s, IF up THEN BAdd(kept, <<1>>) ELSE kept, e + k),
                  inexact |-> (guard = 1 \/ rest)]

FNeg(x) == IF x.m = <<>> THEN x ELSE [x EXCEPT !.s = 1 - @]

FAddR(x, y) ==
    LET e == IF x.e < y.e THEN x.e ELSE y.e
        a == BShl(x.m, x.e - e)
        b == BShl(y.m, y.e - e)
    IN  IF x.m = <<>> THEN [f |-> y, inexact |-> FALSE]
        ELSE IF y.m = <<>> THEN [f |-> x, inexact |-> FALSE]
        ELSE IF x.s = y.s THEN FRound(x.s, BAdd(a, b), e, FALSE)
        ELSE IF BLess(a, b) THEN FRound(y.s, BSub(b, a), e, FALSE)
        ELSE FRound(x.s, BSub(a, b), e, FALSE)

FMulR(x, y) == FRound((x.s + y.s) % 2, BMul(x.m, y.m), x.e + y.e, FALSE)

\* 2^i mod b for 0 < b < 2^15
RECURSIVE PowMod(_, _)
PowMod(i, b) ==
    IF i = 0 THEN 1 % b
    ELSE LET h == PowMod(i \div 2, b)
         IN  (((h * h) % b) * (IF i % 2 = 1 THEN 2 ELSE 1)) % b

RECURSIVE BToNat(_)
BToNat(b) == IF b = <<>> THEN 0 ELSE Head(b) + 2 * BToNat(Tail(b))

\* quotient and remainder of a * 2^k by b for naturals a, b < 2^15, b # 0:
\* the quotient bit of weight 2^(k-i) is floor(2 * (a * 2^(i-1) mod b) / b)
BDivModSmall(a, k, b) ==
    LET rem(i) == ((a % b) * PowMod(i, b)) % b
    IN  [q |-> BTrim([j \in 1..k |-> (2 * rem(k - j)) \div b] \o BFromNat(a \div b)),
         r |-> BFromNat(rem(k))]

\* x / y for y # 0 and significands below 2^15 (every division of the
\* program that is modelled divides differences of calibration inputs or
\* small literals): enough quotient bits for the rounding, the remainder is
\* the sticky bit
FDivR(x, y) ==
    LET k == MantissaBits + 2 + Len(y.m)
        d == BDivModSmall(BToNat(x.m), k, BToNat(y.m))
    IN  FRound((x.s + y.s) % 2, d.q, x.e - y.e - k, d.r # <<>>)

FAdd(x, y) == FAddR(x, y).f
FSub(x, y) == FAddR(x, FNeg(y)).f
FMul(x, y) == FMulR(x, y).f
FDiv(x, y) == FDivR(x, y).f

\* ------------------------------------------------------- BBI2CBus.__init__
\* faulty variant: the range assertion admits bus 3
BBI2CBus__init__WideAssert(bus_num) ==
    IF 0 <= bus_num /\ bus_num <= 3
    THEN [ok |-> TRUE, attrs |-> {"log", "bus"}, mkTransport |-> TRUE, err |-> NoErr]
    ELSE [ok |-> FALSE, attrs |-> {"log"}, mkTransport |-> FALSE,
          err |-> Err("AssertionError", "__init__", 0)]

\* self.log is set, the assertion is evaluated, and only then SMBus(bus_num)
\* is constructed and stored in self.bus.  bus_num itself is not stored.
BBI2CBus__init__(bus_num) ==
    IF 0 <= bus_num /\ bus_num <= 2
    THEN [ok |-> TRUE, attrs |-> {"log", "bus"}, mkTransport |-> TRUE, err |-> NoErr]
    ELSE [ok |-> FALSE, attrs |-> {"log"}, mkTransport |-> FALSE,
          err |-> Err("AssertionError", "__init__", 0)]

\* which module `smbus` names after the try/except import
TransportKind == IF smbus_available THEN "real" ELSE "stub"

\* faulty variant: init forgets to create the lock
initNoLock(b) ==
    LET r == BBI2CBus__init__(b)
    IN  [ok |-> r.ok, attrs |-> r.attrs, mkTransport |-> r.mkTransport,
         mkLock |-> FALSE, err |-> r.err]

\* BBI2CBusN.init: super().__init__(bus_num=N); self.bus_lock = RLock()
init(b) ==
    LET r == BBI2CBus__init__(b)
    IN  [ok |-> r.ok,
         attrs |-> IF r.ok THEN r.attrs \cup {"bus_lock"} ELSE r.attrs,
         mkTransport |-> r.mkTransport, mkLock |-> r.ok, err |-> r.err]

\* BBI2CBus0 overrides __init__(self) with `pass`; BBI2CBus1 and BBI2CBus2 do
\* not, so the constructor call resolves __init__ to BBI2CBus.__init__(self,
\* bus_num) and calls it without bus_num.
DefinesOwn__init__(b) == b = 0

Call__init__(b) ==
    IF DefinesOwn__init__(b) THEN NoErr ELSE Err("TypeError", "__init__", 0)

\* ---------------------------------------------------------------- the lock
\* faulty variant: the lock excludes nobody
CanAcquireAlways(l, t) == TRUE

\* faulty variant: a plain Lock, which its own holder cannot take again
CanAcquireFreeOnly(l, t) == LockOf(l).owner = 0

\* threading.RLock: free, or already owned by the acquiring thread
CanAcquire(l, t) == LockOf(l).owner = 0 \/ LockOf(l).owner = t

Acquired(l, t) ==
    [locks EXCEPT ![l[1]][l[2]] = [owner |-> t, count |-> @.count + 1]]

\* faulty variant: leaving the with block keeps the lock
ReleasedNever(l, t) == locks

\* leaving `with lock:` (RLock.release): one level less, free at level 0
Released(l, t) ==
    [locks EXCEPT ![l[1]][l[2]] =
        IF @.count <= 1 THEN [owner |-> 0, count |-> 0]
        ELSE [owner |-> @.owner, count |-> @.count - 1]]

\* BBI2CBusN._get_lock
_get_lock(h) == Handle(h).bus_lock

\* ------------------------------------------------------------ the transport
\* stubs/smbus.py: the methods the stub class defines
StubMethods == {"write_byte_data", "write_i2c_block_data",
                "read_byte_data", "read_i2c_block_data"}

\* the transport method each operation calls on self.bus
TransportMethod(name) ==
    CASE name = "write8" -> "write_byte_data"
      [] name = "write16" -> "write_word_data"
      [] name = "write_list" -> "write_i2c_block_data"
      [] name = "read8" -> "read_byte_data"
      [] name = "read16" -> "read_word_data"
      [] name = "read_list" -> "read_i2c_block_data"

\* what the operation's body returns when its transport call returns: reads
\* return what the transport returned (v, or `length` bytes v), writes None
BodyValue(name, length, v) ==
    CASE name = "read8" -> IntVal(v)
      [] name = "read16" -> IntVal(v)
      [] name = "read_list" -> ListVal(Repeat(v, length))
      [] OTHER -> None

\* the outcomes of one invocation (the k-th of its operation) on the stub:
\* a method the stub defines returns 0 / [0] * length / None, one it does not
\* define raises AttributeError
StubOutcomes(name, length, k) ==
    IF TransportMethod(name) \in StubMethods
    THEN {[ok |-> TRUE, value |-> BodyValue(name, length, 0), err |-> NoErr]}
    ELSE {[ok |-> FALSE, value |-> None, err |-> Err("AttributeError", "stub", k)]}

\* on the real smbus: any invocation may succeed or raise
RealOutcomes(name, length, k) ==
    {[ok |-> TRUE, value |-> BodyValue(name, length, v), err |-> NoErr] :
        v \in IF name \in ReadOps THEN ReadVals ELSE {0}}
    \cup {[ok |-> FALSE, value |-> None, err |-> Err("TransportError", "transport", k)]}

BodyOutcomes(kind, name, length, k) ==
    IF kind = "stub" THEN StubOutcomes(name, length, k)
    ELSE RealOutcomes(name, length, k)

\* --------------------------------------------------------- the debug trace
\* the value argument of a write (an int; a list of ints for write_list)
WriteArg(name) == IF name = "write_list" THEN ListVal(<<0>>) ELSE IntVal(0)

\* faulty variant: the format specification rejects every value
FormatRaisesAlways(v) == TRUE

\* "0x{:02X}".format(v): TypeError unless v is an int
FormatRaises(v) == v.tag # "int"

\* building the debug message of operation `name` about value v raises: v
\* itself is formatted, or each element of v by the list operations (None is
\* not iterable)
MessageRaises(name, v) ==
    IF name \in {"write_list", "read_list"}
    THEN \/ v.tag # "list"
         \/ \E i \in 1..Len(v.list) : FormatRaises(IntVal(v.list[i]))
    ELSE FormatRaises(v)

\* a log.debug event
DebugEvent(name, v) == [op |-> name, value |-> v]

\* the body of an operation, run once (the k-th time), given how its transport
\* invocation ends (o): whether the transport was invoked, how the body ends
\* and the debug events it emits.  With DEBUG set a write logs its arguments
\* before the transport call and a read logs the value after it.
Body(debug, name, length, k, o) ==
    LET plain == [ok |-> o.ok, value |-> o.value, err |-> o.err,
                  invoked |-> TRUE, trace |-> <<>>]
        typeError == [ok |-> FALSE, value |-> None,
                      err |-> Err("TypeError", "debug", k),
                      invoked |-> name \in ReadOps, trace |-> <<>>]
        shown == IF name \in ReadOps THEN o.value ELSE WriteArg(name)
    IN  IF ~debug \/ (name \in ReadOps /\ ~o.ok) THEN plain
        ELSE IF MessageRaises(name, shown) THEN typeError
        ELSE [plain EXCEPT !.trace = <<DebugEvent(name, shown)>>]

\* ------------------------------------------------------------ retry_on_fail
\* faulty variant: the comparison of the loop condition is reversed
LoopCondReversed(n) == n >= 3

\* while num_tries <= 3
LoopCond(n) == n <= 3

\* where the while test sends the thread: into the with statement, or out of
\* the loop and to the end of the function, which returns None
WhilePc(n) == IF LoopCond(n) THEN "acquire" ELSE "op_done"
WhileResult(n, r) ==
    IF LoopCond(n) THEN r
    ELSE [kind |-> "return", value |-> None, err |-> NoErr, fellthrough |-> TRUE]

\* a log.warning event
Retrying(name, bus_num) ==
    [kind |-> "retrying", op |-> name, bus_num |-> bus_num, tries |-> 0]
GivingUp(n) ==
    [kind |-> "giving_up", op |-> "none", bus_num |-> -1, tries |-> n]

\* the except clause, given num_tries before the increment, the attributes of
\* self, the exception caught, the operation and the bus of self: the warning
\* it emits (if any) and whether the loop goes on or an exception leaves the
\* function.  Formatting the "Retrying" message reads self.bus_num before
\* log.warning is called.
ExceptClause(n, attrs, e, name, bus_num) ==
    LET n1 == n + 1
    IN  IF n1 < 3
        THEN IF "bus_num" \in attrs
             THEN [num_tries |-> n1, raise |-> FALSE, err |-> NoErr,
                   warn |-> <<Retrying(name, bus_num)>>]
             ELSE [num_tries |-> n1, raise |-> TRUE,
                   err |-> Err("AttributeError", "retry_on_fail", e.attempt),
                   warn |-> <<>>]
        ELSE [num_tries |-> n1, raise |-> TRUE, err |-> e,
              warn |-> <<GivingUp(n1)>>]

\* ------------------------------------------------- hardware_interfaces.py
\* the four capability interfaces (one instance of each)
Ifaces == {"DigitalInputInterface", "AnalogInputInterface",
           "DigitalOutputInterface", "AnalogOutputInterface"}
InputIfaces == {"DigitalInputInterface", "AnalogInputInterface"}
OutputIfaces == {"DigitalOutputInterface", "AnalogOutputInterface"}
DigitalIfaces == {"DigitalInputInterface", "DigitalOutputInterface"}

\* analog values the interface checks use: 0.0 and 1.25
Samples == {Float(0, 0), Float(5, -2)}
\* voltages a sensor may be fed: 0.0, 1.25, 1.375, 1.5, 2.0, 5.0
Voltages == {Float(0, 0), Float(5, -2), Float(11, -3), Float(3, -1),
             Float(2, 0), Float(5, 0)}

\* self.simulated_input / self.simulated_output as __init__ sets them:
\* False on a digital interface, 0.0 on an analog one
Initial(i) == IF i \in DigitalIfaces THEN FALSE ELSE Float(0, 0)

\* self.simulated: the instance's own attribute when one was assigned, the
\* class attribute HardwareInterface.simulated otherwise
Simulated(i) ==
    IF simulated.inst[i] = "unset" THEN simulated.cls
    ELSE simulated.inst[i] = "True"

\* what the hardware-specific _read() / _write(value) of a concrete interface
\* may do: return (a value, for _read) or raise
HwOutcomes(i, vals) ==
    {[ok |-> TRUE, value |-> v] : v \in vals}
    \cup {[ok |-> FALSE, value |-> Initial(i)]}

\* the cases of a call on interface i to run: every outcome of the hardware
\* when the call would reach it, one (immaterial) outcome when it would not
HwCases(i, vals) ==
    IF Simulated(i) THEN {[ok |-> FALSE, value |-> Initial(i)]}
    ELSE HwOutcomes(i, vals)

NoICall == [iface |-> "none", method |-> "none", simulated |-> FALSE,
            hw_calls |-> 0, kind |-> "none"]

\* faulty variant: read() asks the hardware even when simulated
readAlwaysHardware(i, o) ==
    [iface |-> i, method |-> "read", simulated |-> Simulated(i),
     hw_calls |-> 1, kind |-> IF o.ok THEN "return" ELSE "raise",
     arg |-> Initial(i), value |-> o.value, out_before |-> Initial(i)]

\* DigitalInputInterface.read / AnalogInputInterface.read, given what _read()
\* would do: the record of the call
read(i, o) ==
    IF Simulated(i)
    THEN [iface |-> i, method |-> "read", simulated |-> TRUE, hw_calls |-> 0,
          kind |-> "return", arg |-> Initial(i), value |-> simulated_input[i],
          out_before |-> Initial(i)]
    ELSE [iface |-> i, method |-> "read", simulated |-> FALSE, hw_calls |-> 1,
          kind |-> IF o.ok THEN "return" ELSE "raise",
          arg |-> Initial(i), value |-> o.value, out_before |-> Initial(i)]

\* DigitalOutputInterface.write / AnalogOutputInterface.write, given what
\* _write(value) would do: the record of the call (value is what reached
\* _write) and the new simulated_output
write(i, value, o) ==
    IF Simulated(i)
    THEN [call |-> [iface |-> i, method |-> "write", simulated |-> TRUE,
                    hw_calls |-> 0, kind |-> "return", arg |-> value,
                    value |-> Initial(i), out_before |-> simulated_output[i]],
          simulated_output |-> value]
    ELSE [call |-> [iface |-> i, method |-> "write", simulated |-> FALSE,
                    hw_calls |-> 1, kind |-> IF o.ok THEN "return" ELSE "raise",
                    arg |-> value, value |-> value,
                    out_before |-> simulated_output[i]],
          simulated_output |-> simulated_output[i]]

\* -------------------------------------------------- temperature_sensors.py
\* TemperatureSensor.ABSOLUTE_ZERO_OFFSET_C = 273.15, as the float it is
ABSOLUTE_ZERO_OFFSET_C ==
    [s |-> 0,
     m |-> <<1, 1, 0, 0, 1, 1, 0, 0, 1, 1, 0, 0, 1, 1, 0, 0, 1, 1, 0, 0, 1, 1,
             0, 0, 1, 1, 0, 0, 1, 1, 0, 0, 1, 1, 0, 0, 1, 1, 0, 0, 1, 0, 0, 1,
             0, 0, 0, 1, 0, 0, 0, 1>>,
     e |-> -43]

SensorClasses == {"Thermistor", "AnalogTemperatureSensor", "AD8495TCAmplifier"}
Methods == {"read_temperature_k", "read_temperature_c", "read_temperature_f"}

\* constructor arguments <<v1_v, t1_c, v2_v, t2_c>>: the AD8495TCAmplifier
\* defaults (1.25, 0.0, 1.5, 50)
AD8495Defaults == <<Float(5, -2), Float(0, 0), Float(3, -1), Float(50, 0)>>
\* and the calibrations an AnalogTemperatureSensor is constructed with:
\* (2, 10, 5, 40), (2, 0, 5, 1), (2, 4, 5, 0), and (2, 0, 2, 5) with v1 = v2
Calibrations ==
    {<<Float(2, 0), Float(10, 0), Float(5, 0), Float(40, 0)>>,
     <<Float(2, 0), Float(0, 0), Float(5, 0), Float(1, 0)>>,
     <<Float(2, 0), Float(4, 0), Float(5, 0), Float(0, 0)>>,
     <<Float(2, 0), Float(0, 0), Float(2, 0), Float(5, 0)>>}

NoSensor == [cls |-> "none", args |-> AD8495Defaults,
             gain |-> Float(0, 0), offset |-> Float(0, 0)]

\* faulty variant: the offset is taken at v2_v instead of v1_v
AnalogTemperatureSensor__init__OffsetAtV2(v1_v, t1_c, v2_v, t2_c) ==
    IF FSub(v1_v, v2_v) = Float(0, 0)
    THEN [ok |-> FALSE, gain |-> Float(0, 0), offset |-> Float(0, 0)]
    ELSE LET gain == FDiv(FSub(t1_c, t2_c), FSub(v1_v, v2_v))
         IN  [ok |-> TRUE, gain |-> gain,
              offset |-> FAdd(FMul(gain, FSub(Float(0, 0), v2_v)), t1_c)]

\* AnalogTemperatureSensor.__init__: gain = (t1_c - t2_c)/(v1_v - v2_v);
\* offset = gain * (0 - v1_v) + t1_c.  The division raises ZeroDivisionError
\* when v1_v = v2_v.
AnalogTemperatureSensor__init__(v1_v, t1_c, v2_v, t2_c) ==
    IF FSub(v1_v, v2_v) = Float(0, 0)
    THEN [ok |-> FALSE, gain |-> Float(0, 0), offset |-> Float(0, 0)]
    ELSE LET gain == FDiv(FSub(t1_c, t2_c), FSub(v1_v, v2_v))
         IN  [ok |-> TRUE, gain |-> gain,
              offset |-> FAdd(FMul(gain, FSub(Float(0, 0), v1_v)), t1_c)]

\* whether the six float operations of AnalogTemperatureSensor.__init__ and
\* the two of its read_temperature_c at voltage_v all return their exact result
NoRounding(v1_v, t1_c, v2_v, t2_c, voltage_v) ==
    LET dt == FAddR(t1_c, FNeg(t2_c))
        dv == FAddR(v1_v, FNeg(v2_v))
        g == FDivR(dt.f, dv.f)
        n == FAddR(Float(0, 0), FNeg(v1_v))
        p == FMulR(g.f, n.f)
        o == FAddR(p.f, t1_c)
        q == FMulR(g.f, voltage_v)
        r == FAddR(q.f, o.f)
    IN  ~(dt.inexact \/ dv.inexact \/ g.inexact \/ n.inexact \/ p.inexact
          \/ o.inexact \/ q.inexact \/ r.inexact)

\* the classes a method is looked up in, in method resolution order
MRO(cls) ==
    CASE cls = "AD8495TCAmplifier" ->
            <<"AD8495TCAmplifier", "AnalogTemperatureSensor", "TemperatureSensor">>
      [] cls = "AnalogTemperatureSensor" ->
            <<"AnalogTemperatureSensor", "TemperatureSensor">>
      [] cls = "Thermistor" -> <<"Thermistor", "TemperatureSensor">>

\* faulty variant: AnalogTemperatureSensor does not override read_temperature_c
DefinesNoOverride(c, m) ==
    \/ c = "TemperatureSensor" /\ m \in {"read_temperature_c", "read_temperature_f"}
    \/ c = "Thermistor" /\ m = "read_temperature_k"
    \/ c = "AnalogTemperatureSensor" /\ m = "read_temperature_k"

\* the methods each class body defines (TemperatureSensor.read_temperature_k
\* is abstract)
Defines(c, m) ==
    \/ c = "TemperatureSensor" /\ m \in {"read_temperature_c", "read_temperature_f"}
    \/ c = "Thermistor" /\ m = "read_temperature_k"
    \/ c = "AnalogTemperatureSensor"
         /\ m \in {"read_temperature_c", "read_temperature_k"}

\* the class whose definition of m an instance of cls runs
Resolve(cls, m) ==
    LET mro == MRO(cls)
        k == CHOOSE i \in 1..Len(mro) :
                 Defines(mro[i], m) /\ \A j \in 1..(i - 1) : ~Defines(mro[j], m)
    IN  mro[k]

\* what the body of class c's method m does first: another method of self it
\* calls, or "read" when it calls self.analog_input.read()
Calls(c, m) ==
    CASE c = "TemperatureSensor" /\ m = "read_temperature_c" -> "read_temperature_k"
      [] c = "TemperatureSensor" /\ m = "read_temperature_f" -> "read_temperature_c"
      [] c = "AnalogTemperatureSensor" /\ m = "read_temperature_k" -> "read_temperature_c"
      [] OTHER -> "read"

\* Kelvin values Thermistor.read_temperature_k may compute: 298.0 and 273.15
ThermistorKelvin == {Float(298, 0), ABSOLUTE_ZERO_OFFSET_C}

\* what the body of class c's method m returns, given what its call returned
\* (x: the voltage read, or the value of the method called): the set of its
\* outcomes.  Thermistor.read_temperature_k divides by the voltage
\* (ZeroDivisionError at 0.0) and takes logarithms (ValueError outside their
\* domain); its value depends on constants the model leaves open.
Returns(c, m, x, self) ==
    CASE c = "TemperatureSensor" /\ m = "read_temperature_c" ->
            {[ok |-> TRUE, value |-> FSub(x, ABSOLUTE_ZERO_OFFSET_C), err |-> "none"]}
      [] c = "TemperatureSensor" /\ m = "read_temperature_f" ->
            {[ok |-> TRUE, err |-> "none",
              value |-> FAdd(FMul(x, FDiv(Float(9, 0), Float(5, 0))), Float(32, 0))]}
      [] c = "AnalogTemperatureSensor" /\ m = "read_temperature_k" ->
            {[ok |-> TRUE, value |-> FAdd(x, ABSOLUTE_ZERO_OFFSET_C), err |-> "none"]}
      [] c = "AnalogTemperatureSensor" /\ m = "read_temperature_c" ->
            {[ok |-> TRUE, value |-> FAdd(FMul(self.gain, x), self.offset),
              err |-> "none"]}
      [] c = "Thermistor" /\ m = "read_temperature_k" ->
            IF x = Float(0, 0)
            THEN {[ok |-> FALSE, value |-> Float(0, 0), err |-> "ZeroDivisionError"]}
            ELSE {[ok |-> TRUE, value |-> k, err |-> "none"] : k \in ThermistorKelvin}
                 \cup {[ok |-> FALSE, value |-> Float(0, 0), err |-> "ValueError"]}

\* the outcomes of returning x into the frames stack[1..n], innermost last:
\* each frame's body finishes with what its call returned; an exception
\* passes through every frame (no method has a handler)
RECURSIVE Unwind(_, _, _, _)
Unwind(stack, n, x, self) ==
    IF n = 0 THEN {[ok |-> TRUE, value |-> x, err |-> "none"]}
    ELSE UNION {IF r.ok THEN Unwind(stack, n - 1, r.value, self) ELSE {r} :
                  r \in Returns(Resolve(self.cls, stack[n]), stack[n], x, self)}

NoSCall == [state |-> "none", method |-> "none", stack |-> <<>>, reads |-> 0,
            input |-> Float(0, 0), kind |-> "none", value |-> Float(0, 0),
            err |-> "none"]

\* the application side before anything was constructed or assigned
InitApp ==
    /\ simulated = [cls |-> FALSE, inst |-> [i \in Ifaces |-> "unset"]]
    /\ simulated_input = [i \in InputIfaces |-> Initial(i)]
    /\ simulated_output = [i \in OutputIfaces |-> Initial(i)]
    /\ icall = NoICall
    /\ sensor = NoSensor
    /\ scall = NoSCall

\* --------------------------------------------------------------------- Init
\* the state of the process before any caller has run; smbus is importable
Init ==
    /\ smbus_available = TRUE
    /\ it = [b \in Classes |-> NoObj]
    /\ handles = [b \in Classes |-> <<>>]
    /\ transports = [n \in BusNumInputs |-> <<>>]
    /\ locks = [b \in Classes |-> <<>>]
    /\ pc = [t \in Threads |-> "idle"]
    /\ req = [t \in Threads |-> NoReq]
    /\ ref = [t \in Threads |-> NoObj]
    /\ hold = [t \in Threads |-> 0]
    /\ op = [t \in Threads |-> NoOp]
    /\ num_tries = [t \in Threads |-> 0]
    /\ calls = [t \in Threads |-> 0]
    /\ fails = [t \in Threads |-> 0]
    /\ exc = [t \in Threads |-> NoErr]
    /\ warns = [t \in Threads |-> <<>>]
    /\ result = [t \in Threads |-> NoResult]
    /\ DEBUG = FALSE
    /\ outs = [t \in Threads |-> <<>>]
    /\ trace = [t \in Threads |-> <<>>]
    /\ InitApp

opVars == <<op, num_tries, calls, fails, exc, warns, result>>
heapVars == <<it, handles, transports, locks>>

\* ------------------------------------------------------- getting a handle
\* a caller starts evaluating BBI2CBus<b>()
StartRequest(t, b) ==
    /\ pc[t] = "idle"
    /\ pc' = [pc EXCEPT ![t] = "new"]
    /\ req' = [req EXCEPT ![t] = [cls |-> b, early |-> (it[b] = NoObj),
                                  kind |-> "none", value |-> NoObj, err |-> NoErr]]
    /\ UNCHANGED <<appVars, DEBUG, outs, trace, smbus_available, heapVars, ref, hold, opVars>>

\* Singleton.__new__ returns the class's instance, creating it and running
\* init() on it the first time, as one get-or-insert step; the constructor
\* call then runs __init__() on the instance and evaluates to it
ConstructorCall(t) ==
    /\ pc[t] = "new"
    /\ LET b == req[t].cls
           r == init(b)
           e == Call__init__(b)
           fresh == <<b, Len(handles[b]) + 1>>
           made == it[b] = NoObj /\ r.ok
           inst == IF it[b] # NoObj THEN it[b] ELSE fresh
       IN  /\ transports' =
                IF made /\ r.mkTransport
                THEN [transports EXCEPT ![b] = Append(@, [kind |-> TransportKind])]
                ELSE transports
           /\ locks' =
                IF made /\ r.mkLock
                THEN [locks EXCEPT ![b] = Append(@, [owner |-> 0, count |-> 0])]
                ELSE locks
           /\ handles' =
                IF made
                THEN [handles EXCEPT ![b] = Append(@,
                        [attrs |-> r.attrs,
                         bus |-> IF r.mkTransport THEN <<b, Len(transports[b]) + 1>>
                                 ELSE NoObj,
                         bus_lock |-> IF r.mkLock THEN <<b, Len(locks[b]) + 1>>
                                      ELSE NoObj])]
                ELSE handles
           /\ it' = IF made THEN [it EXCEPT ![b] = fresh] ELSE it
           /\ req' = [req EXCEPT ![t] =
                        IF it[b] = NoObj /\ ~r.ok
                        THEN [@ EXCEPT !.kind = "raise", !.err = r.err]
                        ELSE IF e # NoErr
                        THEN [@ EXCEPT !.kind = "raise", !.err = e]
                        ELSE [@ EXCEPT !.kind = "return", !.value = inst]]
    /\ pc' = [pc EXCEPT ![t] = "req_done"]
    /\ UNCHANGED <<appVars, DEBUG, outs, trace, smbus_available, ref, hold, opVars>>

\* a concrete subclass of BBI2CBus hands BBI2CBus.__init__ a bus number
\* outside the supported range
ConstructOutOfRange(t, n) ==
    /\ pc[t] = "idle"
    /\ n \notin Classes
    /\ LET r == BBI2CBus__init__(n)
       IN  /\ transports' =
                IF r.mkTransport
                THEN [transports EXCEPT ![n] = Append(@, [kind |-> TransportKind])]
                ELSE transports
           /\ req' = [req EXCEPT ![t] =
                        [cls |-> n, early |-> FALSE,
                         kind |-> IF r.ok THEN "return" ELSE "raise",
                         value |-> NoObj, err |-> r.err]]
    /\ pc' = [pc EXCEPT ![t] = "req_done"]
    /\ UNCHANGED <<appVars, DEBUG, outs, trace, smbus_available, it, handles, locks, ref, hold, opVars>>

\* the caller takes the outcome of the constructor call
ReqCollect(t) ==
    /\ pc[t] = "req_done"
    /\ ref' = [ref EXCEPT ![t] = IF req[t].kind = "return" /\ req[t].value # NoObj
                                 THEN req[t].value ELSE @]
    /\ req' = [req EXCEPT ![t] = NoReq]
    /\ pc' = [pc EXCEPT ![t] = "idle"]
    /\ UNCHANGED <<appVars, DEBUG, outs, trace, smbus_available, heapVars, hold, opVars>>

\* ------------------------------------------------- the caller and the lock
\* a caller enters and leaves `with bus._get_lock():` around its own code
OuterAcquire(t) ==
    /\ pc[t] = "idle"
    /\ ref[t] # NoObj
    /\ hold[t] < MaxHold
    /\ "bus_lock" \in Handle(ref[t]).attrs
    /\ CanAcquire(_get_lock(ref[t]), t)
    /\ locks' = Acquired(_get_lock(ref[t]), t)
    /\ hold' = [hold EXCEPT ![t] = @ + 1]
    /\ UNCHANGED <<appVars, DEBUG, outs, trace, smbus_available, it, handles, transports, pc, req, ref, opVars>>

OuterRelease(t) ==
    /\ pc[t] = "idle"
    /\ hold[t] > 0
    /\ locks' = Released(_get_lock(ref[t]), t)
    /\ hold' = [hold EXCEPT ![t] = @ - 1]
    /\ UNCHANGED <<appVars, DEBUG, outs, trace, smbus_available, it, handles, transports, pc, req, ref, opVars>>

\* ------------------------------------------------------- a bus operation
\* a caller calls one of the six operations through its handle reference:
\* num_tries = 0 and the first while test
StartOp(t, name, len) ==
    /\ pc[t] = "idle"
    /\ ref[t] # NoObj
    /\ name = "read_list" \/ len = 0
    /\ op' = [op EXCEPT ![t] = [name |-> name, length |-> len, h |-> ref[t]]]
    /\ num_tries' = [num_tries EXCEPT ![t] = 0]
    /\ calls' = [calls EXCEPT ![t] = 0]
    /\ fails' = [fails EXCEPT ![t] = 0]
    /\ exc' = [exc EXCEPT ![t] = NoErr]
    /\ warns' = [warns EXCEPT ![t] = <<>>]
    /\ result' = [result EXCEPT ![t] = WhileResult(0, NoResult)]
    /\ outs' = [outs EXCEPT ![t] = <<>>]
    /\ trace' = [trace EXCEPT ![t] = <<>>]
    /\ pc' = [pc EXCEPT ![t] = WhilePc(0)]
    /\ UNCHANGED <<appVars, DEBUG, smbus_available, heapVars, req, ref, hold>>

\* with self._get_lock(): blocks until the lock can be taken; an exception
\* raised by evaluating self._get_lock() goes to the except clause
Acquire(t) ==
    /\ pc[t] = "acquire"
    /\ IF "bus_lock" \in Handle(op[t].h).attrs
       THEN /\ CanAcquire(_get_lock(op[t].h), t)
            /\ locks' = Acquired(_get_lock(op[t].h), t)
            /\ pc' = [pc EXCEPT ![t] = "in_transport"]
            /\ exc' = exc
       ELSE /\ exc' = [exc EXCEPT ![t] = Err("AttributeError", "_get_lock", calls[t])]
            /\ pc' = [pc EXCEPT ![t] = "except"]
            /\ locks' = locks
    /\ UNCHANGED <<appVars, DEBUG, outs, trace, smbus_available, it, handles, transports, req, ref, hold, op,
                   num_tries, calls, fails, warns, result>>

\* faulty variant: the body's value is kept but the loop goes round again
TransportCallLoopsOn(t) ==
    /\ pc[t] = "in_transport"
    /\ \E o \in BodyOutcomes(TransportOf(Handle(op[t].h).bus).kind, op[t].name,
                             op[t].length, calls[t] + 1) :
          LET b == Body(DEBUG, op[t].name, op[t].length, calls[t] + 1, o)
          IN  /\ calls' = [calls EXCEPT ![t] = IF b.invoked THEN @ + 1 ELSE @]
              /\ outs' = [outs EXCEPT ![t] =
                            IF b.invoked THEN Append(@, [ok |-> o.ok, value |-> o.value])
                            ELSE @]
              /\ trace' = [trace EXCEPT ![t] = @ \o b.trace]
              /\ locks' = Released(_get_lock(op[t].h), t)
              /\ IF b.ok
                 THEN /\ result' = [result EXCEPT ![t] =
                                      [kind |-> "return", value |-> b.value,
                                       err |-> NoErr, fellthrough |-> FALSE]]
                      /\ pc' = [pc EXCEPT ![t] = "acquire"]
                      /\ UNCHANGED <<fails, exc>>
                 ELSE /\ fails' = [fails EXCEPT ![t] =
                                     IF b.invoked /\ ~o.ok THEN @ + 1 ELSE @]
                      /\ exc' = [exc EXCEPT ![t] = b.err]
                      /\ pc' = [pc EXCEPT ![t] = "except"]
                      /\ result' = result
    /\ UNCHANGED <<appVars, DEBUG, smbus_available, it, handles, transports, req, ref,
                   hold, op, num_tries, warns>>

\* return func(self, ...): the body runs under the lock (the debug trace, if
\* enabled, and the transport call); leaving the with block releases the lock,
\* on return and on exception alike
TransportCall(t) ==
    /\ pc[t] = "in_transport"
    /\ \E o \in BodyOutcomes(TransportOf(Handle(op[t].h).bus).kind, op[t].name,
                             op[t].length, calls[t] + 1) :
          LET b == Body(DEBUG, op[t].name, op[t].length, calls[t] + 1, o)
          IN  /\ calls' = [calls EXCEPT ![t] = IF b.invoked THEN @ + 1 ELSE @]
              /\ outs' = [outs EXCEPT ![t] =
                            IF b.invoked THEN Append(@, [ok |-> o.ok, value |-> o.value])
                            ELSE @]
              /\ trace' = [trace EXCEPT ![t] = @ \o b.trace]
              /\ locks' = Released(_get_lock(op[t].h), t)
              /\ IF b.ok
                 THEN /\ result' = [result EXCEPT ![t] =
                                      [kind |-> "return", value |-> b.value,
                                       err |-> NoErr, fellthrough |-> FALSE]]
                      /\ pc' = [pc EXCEPT ![t] = "op_done"]
                      /\ UNCHANGED <<fails, exc>>
                 ELSE /\ fails' = [fails EXCEPT ![t] =
                                     IF b.invoked /\ ~o.ok THEN @ + 1 ELSE @]
                      /\ exc' = [exc EXCEPT ![t] = b.err]
                      /\ pc' = [pc EXCEPT ![t] = "except"]
                      /\ result' = result
    /\ UNCHANGED <<appVars, DEBUG, smbus_available, it, handles, transports, req, ref,
                   hold, op, num_tries, warns>>

\* except: num_tries += 1; warn and go round again (the next while test), or
\* warn and raise
Except(t) ==
    /\ pc[t] = "except"
    /\ LET c == ExceptClause(num_tries[t], Handle(op[t].h).attrs, exc[t],
                             op[t].name, op[t].h[1])
       IN  /\ num_tries' = [num_tries EXCEPT ![t] = c.num_tries]
           /\ warns' = [warns EXCEPT ![t] = @ \o c.warn]
           /\ IF c.raise
              THEN /\ result' = [result EXCEPT ![t] =
                                   [kind |-> "raise", value |-> None, err |-> c.err,
                                    fellthrough |-> FALSE]]
                   /\ pc' = [pc EXCEPT ![t] = "op_done"]
              ELSE /\ pc' = [pc EXCEPT ![t] = WhilePc(c.num_tries)]
                   /\ result' = [result EXCEPT ![t] = WhileResult(c.num_tries, @)]
    /\ UNCHANGED <<appVars, DEBUG, outs, trace, smbus_available, heapVars, req, ref, hold, op, calls, fails, exc>>

\* the caller takes the outcome of the operation
OpCollect(t) ==
    /\ pc[t] = "op_done"
    /\ pc' = [pc EXCEPT ![t] = "idle"]
    /\ op' = [op EXCEPT ![t] = NoOp]
    /\ num_tries' = [num_tries EXCEPT ![t] = 0]
    /\ calls' = [calls EXCEPT ![t] = 0]
    /\ fails' = [fails EXCEPT ![t] = 0]
    /\ exc' = [exc EXCEPT ![t] = NoErr]
    /\ warns' = [warns EXCEPT ![t] = <<>>]
    /\ result' = [result EXCEPT ![t] = NoResult]
    /\ outs' = [outs EXCEPT ![t] = <<>>]
    /\ trace' = [trace EXCEPT ![t] = <<>>]
    /\ UNCHANGED <<appVars, DEBUG, smbus_available, heapVars, req, ref, hold>>

Next ==
    \/ \E t \in Threads, b \in Classes : StartRequest(t, b)
    \/ \E t \in Threads : ConstructorCall(t)
    \/ \E t \in Threads, n \in BusNumInputs : ConstructOutOfRange(t, n)
    \/ \E t \in Threads : ReqCollect(t)
    \/ \E t \in Threads : OuterAcquire(t)
    \/ \E t \in Threads : OuterRelease(t)
    \/ \E t \in Threads, name \in OpNames, len \in 0..MaxLen : StartOp(t, name, len)
    \/ \E t \in Threads : Acquire(t)
    \/ \E t \in Threads : TransportCall(t)
    \/ \E t \in Threads : Except(t)
    \/ \E t \in Threads : OpCollect(t)

Spec == Init /\ [][Next]_vars

\* the callers of BBI2CBus0, the one class whose constructor call returns a
\* handle: its constructor, the lock and the six operations
NextBus ==
    \/ \E t \in Threads : StartRequest(t, 0)
    \/ \E t \in Threads : ConstructorCall(t)
    \/ \E t \in Threads : ReqCollect(t)
    \/ \E t \in Threads : OuterAcquire(t)
    \/ \E t \in Threads : OuterRelease(t)
    \/ \E t \in Threads, name \in OpNames, len \in 0..MaxLen : StartOp(t, name, len)
    \/ \E t \in Threads : Acquire(t)
    \/ \E t \in Threads : TransportCall(t)
    \/ \E t \in Threads : Except(t)
    \/ \E t \in Threads : OpCollect(t)

SpecBus == Init /\ [][NextBus]_vars

\* the state after every thread has obtained the handle of bus 0 from
\* BBI2CBus0(): the one instance, with the transport and the lock init() made
InitShared ==
    /\ smbus_available = TRUE
    /\ it = [b \in Classes |-> IF b = 0 THEN <<0, 1>> ELSE NoObj]
    /\ handles = [b \in Classes |->
                    IF b = 0 THEN <<[attrs |-> init(0).attrs, bus |-> <<0, 1>>,
                                     bus_lock |-> <<0, 1>>]>>
                    ELSE <<>>]
    /\ transports = [n \in BusNumInputs |->
                       IF n = 0 THEN <<[kind |-> "real"]>> ELSE <<>>]
    /\ locks = [b \in Classes |->
                  IF b = 0 THEN <<[owner |-> 0, count |-> 0]>> ELSE <<>>]
    /\ pc = [t \in Threads |-> "idle"]
    /\ req = [t \in Threads |-> NoReq]
    /\ ref = [t \in Threads |-> <<0, 1>>]
    /\ hold = [t \in Threads |-> 0]
    /\ op = [t \in Threads |-> NoOp]
    /\ num_tries = [t \in Threads |-> 0]
    /\ calls = [t \in Threads |-> 0]
    /\ fails = [t \in Threads |-> 0]
    /\ exc = [t \in Threads |-> NoErr]
    /\ warns = [t \in Threads |-> <<>>]
    /\ result = [t \in Threads |-> NoResult]
    /\ DEBUG = FALSE
    /\ outs = [t \in Threads |-> <<>>]
    /\ trace = [t \in Threads |-> <<>>]
    /\ InitApp

\* the threads' operations on the shared handle, and their own use of its
\* lock; retry_on_fail wraps all six operations alike, and the threads call a
\* write and a read
ContendingOps == {"write8", "read8"}

NextOps ==
    \/ \E t \in Threads : OuterAcquire(t)
    \/ \E t \in Threads : OuterRelease(t)
    \/ \E t \in Threads, name \in ContendingOps : StartOp(t, name, 0)
    \/ \E t \in Threads : Acquire(t)
    \/ \E t \in Threads : TransportCall(t)
    \/ \E t \in Threads : Except(t)
    \/ \E t \in Threads : OpCollect(t)

\* the scheduling the operations rely on: a transport invocation terminates
\* and the interpreter goes on through the except clause (weak fairness), a
\* thread for which the lock is free again and again gets it (strong
\* BBI2CBus.DEBUG = b, by any thread at any time
SetDebug(b) ==
    /\ DEBUG' = b
    /\ UNCHANGED <<appVars, smbus_available, heapVars, pc, req, ref, hold, opVars,
                   outs, trace>>

\* the six operations on the shared handle while the debug flag is set and
\* cleared
NextDebug ==
    \/ \E b \in BOOLEAN : SetDebug(b)
    \/ \E t \in Threads, name \in OpNames, len \in 0..MaxLen : StartOp(t, name, len)
    \/ \E t \in Threads : Acquire(t)
    \/ \E t \in Threads : TransportCall(t)
    \/ \E t \in Threads : Except(t)
    \/ \E t \in Threads : OpCollect(t)

SpecDebug == InitShared /\ [][NextDebug]_vars

\* faulty variant: the lock is not fair, a waiting thread may be passed over
FairnessUnfairLock ==
    \A t \in Threads :
        /\ WF_vars(Acquire(t))
        /\ WF_vars(TransportCall(t))
        /\ WF_vars(Except(t))
        /\ WF_vars(OpCollect(t))
        /\ \A n \in 1..MaxHold : SF_vars(hold[t] = n /\ OuterRelease(t))

\* fairness), and a caller takes the outcome of its operation and, sooner or
\* later, leaves each of its own `with bus._get_lock():` blocks
Fairness ==
    \A t \in Threads :
        /\ SF_vars(Acquire(t))
        /\ WF_vars(TransportCall(t))
        /\ WF_vars(Except(t))
        /\ WF_vars(OpCollect(t))
        /\ \A n \in 1..MaxHold : SF_vars(hold[t] = n /\ OuterRelease(t))

SpecOpsFair == InitShared /\ [][NextOps]_vars /\ Fairness

\* the constructor calls alone, of every class and bus number
NextRegistry ==
    \/ \E t \in Threads, b \in Classes : StartRequest(t, b)
    \/ \E t \in Threads : ConstructorCall(t)
    \/ \E t \in Threads, n \in BusNumInputs : ConstructOutOfRange(t, n)
    \/ \E t \in Threads : ReqCollect(t)

SpecRegistry == Init /\ [][NextRegistry]_vars

\* the same process where `import smbus` fails and the stub takes its place
InitStub ==
    /\ smbus_available = FALSE
    /\ it = [b \in Classes |-> NoObj]
    /\ handles = [b \in Classes |-> <<>>]
    /\ transports = [n \in BusNumInputs |-> <<>>]
    /\ locks = [b \in Classes |-> <<>>]
    /\ pc = [t \in Threads |-> "idle"]
    /\ req = [t \in Threads |-> NoReq]
    /\ ref = [t \in Threads |-> NoObj]
    /\ hold = [t \in Threads |-> 0]
    /\ op = [t \in Threads |-> NoOp]
    /\ num_tries = [t \in Threads |-> 0]
    /\ calls = [t \in Threads |-> 0]
    /\ fails = [t \in Threads |-> 0]
    /\ exc = [t \in Threads |-> NoErr]
    /\ warns = [t \in Threads |-> <<>>]
    /\ result = [t \in Threads |-> NoResult]
    /\ DEBUG = FALSE
    /\ outs = [t \in Threads |-> <<>>]
    /\ trace = [t \in Threads |-> <<>>]
    /\ InitApp

SpecStub == InitStub /\ [][Next]_vars

\* ------------------------------------------- the interfaces and the sensors
\* the bus side, which the interfaces and sensors reach only through the
\* hardware-specific _read / _write of a concrete interface
busVars == <<smbus_available, it, handles, transports, locks, pc, req, ref, hold,
             op, num_tries, calls, fails, exc, warns, result, DEBUG, outs, trace>>

\* the values an interface carries: booleans when digital, else the given floats
IfaceValues(i, analog) == IF i \in DigitalIfaces THEN BOOLEAN ELSE analog

\* iface.simulated = b, on one instance
SetSimulated(i, b) ==
    /\ scall.state # "running"
    /\ simulated' = [simulated EXCEPT !.inst[i] = b]
    /\ UNCHANGED <<busVars, simulated_input, simulated_output, icall, sensor, scall>>

\* HardwareInterface.simulated = b, on the shared base class
SetClassSimulated(b) ==
    /\ scall.state # "running"
    /\ simulated' = [simulated EXCEPT !.cls = b]
    /\ UNCHANGED <<busVars, simulated_input, simulated_output, icall, sensor, scall>>

\* iface.simulated_input = v
SetSimulatedInput(i, v) ==
    /\ scall.state # "running"
    /\ i \in InputIfaces
    /\ simulated_input' = [simulated_input EXCEPT ![i] = v]
    /\ UNCHANGED <<busVars, simulated, simulated_output, icall, sensor, scall>>

\* a caller calls iface.read(); vals: the values the hardware may answer
CallRead(i, vals) ==
    /\ scall.state # "running"
    /\ i \in InputIfaces
    /\ \E o \in HwCases(i, vals) : icall' = read(i, o)
    /\ UNCHANGED <<busVars, simulated, simulated_input, simulated_output, sensor, scall>>

\* a caller calls iface.write(value)
CallWrite(i, value) ==
    /\ scall.state # "running"
    /\ i \in OutputIfaces
    /\ \E o \in HwCases(i, {value}) :
          LET w == write(i, value, o)
          IN  /\ icall' = w.call
              /\ simulated_output' =
                    [simulated_output EXCEPT ![i] = w.simulated_output]
    /\ UNCHANGED <<busVars, simulated, simulated_input, sensor, scall>>

\* the application constructs a sensor on the analog input: Thermistor(...),
\* AnalogTemperatureSensor(input, *args) or AD8495TCAmplifier(input)
Construct(cls, args) ==
    /\ sensor.cls = "none"
    /\ cls = "AD8495TCAmplifier" => args = AD8495Defaults
    /\ LET r == IF cls = "Thermistor"
                THEN [ok |-> TRUE, gain |-> Float(0, 0), offset |-> Float(0, 0)]
                ELSE AnalogTemperatureSensor__init__(args[1], args[2], args[3], args[4])
       IN  IF r.ok
           THEN /\ sensor' = [cls |-> cls, args |-> args, gain |-> r.gain,
                              offset |-> r.offset]
                /\ scall' = NoSCall
           ELSE /\ sensor' = sensor
                /\ scall' = [NoSCall EXCEPT !.state = "done", !.method = "__init__",
                                            !.kind = "raise",
                                            !.err = "ZeroDivisionError"]
    /\ UNCHANGED <<busVars, simulated, simulated_input, simulated_output, icall>>

\* the application calls sensor.read_temperature_k / _c / _f
SensorCall(m) ==
    /\ sensor.cls # "none"
    /\ scall.state # "running"
    /\ scall' = [NoSCall EXCEPT !.state = "running", !.method = m, !.stack = <<m>>]
    /\ UNCHANGED <<busVars, simulated, simulated_input, simulated_output, icall, sensor>>

\* the innermost method runs: it calls another method of self, or it calls
\* self.analog_input.read() and the value (or the exception) travels back
\* through every frame to the application
SensorStep(vals) ==
    /\ scall.state = "running"
    /\ LET top == scall.stack[Len(scall.stack)]
           nxt == Calls(Resolve(sensor.cls, top), top)
       IN  IF nxt # "read"
           THEN /\ Len(scall.stack) < MaxDepth
                /\ scall' = [scall EXCEPT !.stack = Append(@, nxt)]
           ELSE \E o \in HwCases("AnalogInputInterface", vals) :
                   LET rec == read("AnalogInputInterface", o)
                   IN  IF rec.kind = "raise"
                       THEN scall' = [scall EXCEPT
                                        !.state = "done", !.reads = @ + 1,
                                        !.kind = "raise", !.err = "ReadError"]
                       ELSE \E r \in Unwind(scall.stack, Len(scall.stack),
                                            rec.value, sensor) :
                               scall' = [scall EXCEPT
                                           !.state = "done", !.reads = @ + 1,
                                           !.input = rec.value,
                                           !.kind = IF r.ok THEN "return" ELSE "raise",
                                           !.value = r.value, !.err = r.err]
    /\ UNCHANGED <<busVars, simulated, simulated_input, simulated_output, icall,
                   sensor>>

\* the capability interfaces alone: the flag, the simulated values, read and
\* write on each of the four
NextInterface ==
    \/ \E i \in Ifaces, b \in {"True", "False"} : SetSimulated(i, b)
    \/ \E b \in BOOLEAN : SetClassSimulated(b)
    \/ \E i \in InputIfaces : \E v \in IfaceValues(i, Samples) : SetSimulatedInput(i, v)
    \/ \E i \in InputIfaces : CallRead(i, IfaceValues(i, Samples))
    \/ \E i \in OutputIfaces : \E v \in IfaceValues(i, Samples) : CallWrite(i, v)

SpecInterface == Init /\ [][NextInterface]_vars

\* the temperature sensors on the analog input
NextSensor ==
    \/ \E b \in {"True", "False"} : SetSimulated("AnalogInputInterface", b)
    \/ \E v \in Voltages : SetSimulatedInput("AnalogInputInterface", v)
    \/ \E cls \in SensorClasses, args \in Calibrations \cup {AD8495Defaults} :
          Construct(cls, args)
    \/ \E m \in Methods : SensorCall(m)
    \/ SensorStep(Voltages)

SpecSensor == Init /\ [][NextSensor]_vars

\* =================================================================== claims

\* C1: with a transport that fails on its first N invocations and succeeds on
\* invocation N+1, an operation returns if and only if N <= 3.  An operation
\* that returned after N failed invocations ran against such a transport, and
\* one that raised after N failed invocations would have raised against it
\* too, so: an operation returns only after at most 3 failures, and raises
\* only after at least 4.
C1_SucceedsIffAtMostThreeFailures ==
    \A t \in Threads :
        (pc[t] = "op_done" /\ TransportOf(Handle(op[t].h).bus).kind = "real") =>
            /\ (result[t].kind = "return") =>
                   (fails[t] <= 3 /\ calls[t] = fails[t] + 1)
            /\ (result[t].kind = "raise") => (fails[t] >= 4)

\* C2: for each bus id at most one thread is inside a transport invocation on
\* that bus.
C2_NoOverlapOnBus ==
    \A b \in Classes :
        Cardinality({t \in Threads : pc[t] = "in_transport" /\ op[t].h[1] = b}) <= 1

\* one thread is inside a transport invocation while another thread's
\* operation on the same bus waits for the lock
C2_Witness ==
    \E t, u \in Threads :
        /\ t # u
        /\ pc[t] = "in_transport"
        /\ pc[u] = "acquire"
        /\ op[t].h = op[u].h

\* C3: an operation that raises to its caller has invoked the transport
\* exactly 4 times, and all 4 invocations failed.
C3_FailureOnlyAfterFourAttempts ==
    \A t \in Threads :
        (pc[t] = "op_done" /\ result[t].kind = "raise") =>
            (calls[t] = 4 /\ fails[t] = 4)

\* C4: for bus ids 0, 1 and 2 the constructor call succeeds, and a second call
\* returns the handle the caller already has, with the same lock and the same
\* transport.
C4_RequestReturnsTheHandle ==
    \A t \in Threads :
        (pc[t] = "req_done" /\ req[t].cls \in Classes) =>
            /\ req[t].kind = "return"
            /\ (ref[t] # NoObj /\ ref[t][1] = req[t].cls) =>
                   /\ req[t].value = ref[t]
                   /\ Handle(req[t].value).bus_lock = Handle(ref[t]).bus_lock
                   /\ Handle(req[t].value).bus = Handle(ref[t]).bus

C6_OutOfRangeRejected ==
    /\ \A n \in BusNumInputs \ Classes : Len(transports[n]) = 0
    /\ \A t \in Threads :
          (pc[t] = "req_done" /\ req[t].cls \notin Classes) =>
              /\ req[t].kind = "raise"
              /\ req[t].err.type = "AssertionError"
              /\ req[t].value = NoObj

\* a construction with bus number 3 has raised
C6_Witness ==
    \E t \in Threads :
        pc[t] = "req_done" /\ req[t].cls = 3 /\ req[t].kind = "raise"

\* C7: on the stub every operation completes without error: the writes return
\* nothing, read8 and read16 return 0, read_list(length) returns `length` zeros.
C7_StubOperationsComplete ==
    \A t \in Threads :
        (pc[t] = "op_done" /\ TransportOf(Handle(op[t].h).bus).kind = "stub") =>
            /\ result[t].kind = "return"
            /\ ~result[t].fellthrough
            /\ result[t].value =
                 (CASE op[t].name \in {"read8", "read16"} -> IntVal(0)
                    [] op[t].name = "read_list" -> ListVal(Repeat(0, op[t].length))
                    [] OTHER -> None)

\* C8: every failed attempt emits exactly one warning: "retrying", carrying
\* the bus id and the operation name and followed by another attempt, when
\* budget remains, and "giving up", followed by the raise, on the last one.
C8_EveryFailedAttemptWarns ==
    \A t \in Threads :
        (pc[t] \in {"acquire", "in_transport", "op_done"}) =>
            /\ Len(warns[t]) = fails[t]
            /\ \A i \in 1..Len(warns[t]) :
                  IF result[t].kind = "raise" /\ i = Len(warns[t])
                  THEN warns[t][i].kind = "giving_up"
                  ELSE warns[t][i] = Retrying(op[t].name, op[t].h[1])

\* C9: the failure an operation raises is the error of its last failed
\* transport invocation, or carries that error as its cause.
C9_SurfacedErrorIsLastTransportError ==
    \A t \in Threads :
        (pc[t] = "op_done" /\ result[t].kind = "raise") =>
            \/ (result[t].err.origin \in {"transport", "stub"}
                /\ result[t].err.attempt = calls[t])
            \/ (calls[t] > 0 /\ result[t].err.cause = calls[t])

\* C10: an operation ends either by returning what its one successful
\* transport invocation returned (its last one), or by raising; it never
\* returns by leaving the while loop with every invocation failed.
C10_ReturnsResultOrRaises ==
    \A t \in Threads :
        (pc[t] = "op_done") =>
            \/ /\ result[t].kind = "return"
               /\ ~result[t].fellthrough
               /\ calls[t] = fails[t] + 1
               /\ result[t].value.tag =
                    (CASE op[t].name \in {"read8", "read16"} -> "int"
                       [] op[t].name = "read_list" -> "list"
                       [] OTHER -> "None")
               /\ Len(result[t].value.list) = op[t].length
            \/ /\ result[t].kind = "raise"
               /\ result[t].err # NoErr
               /\ calls[t] = fails[t]

\* an operation whose every transport invocation failed has raised
C10_Witness ==
    \E t \in Threads :
        /\ pc[t] = "op_done"
        /\ result[t].kind = "raise"
        /\ calls[t] >= 1
        /\ calls[t] = fails[t]

\* C11: operations on different buses never contend.  For the overlap the
\* claim requires (t inside a transport invocation on bus A while u is inside
\* one on bus B # A), u must get the handle of B while t works on A, and u's
\* attempt on B must not wait for A's lock: whenever t holds, waits for or uses
\* the lock of bus A, a constructor call of another bus B by u returns a
\* handle, and an attempt of u on B can take B's lock unless a thread on B
\* owns it.
C11_DifferentBusesNeverContend ==
    \A t, u \in Threads :
        (/\ t # u
         /\ ref[t] # NoObj
         /\ (hold[t] > 0 \/ pc[t] \in {"acquire", "in_transport"})) =>
            /\ (pc[u] = "req_done" /\ req[u].cls \in Classes
                /\ req[u].cls # ref[t][1]) => req[u].kind = "return"
            /\ (pc[u] = "acquire" /\ op[u].h[1] # ref[t][1]) =>
                   \/ CanAcquire(_get_lock(op[u].h), u)
                   \/ \E w \in Threads :
                         /\ ref[w] # NoObj /\ ref[w][1] = op[u].h[1]
                         /\ LockOf(_get_lock(op[u].h)).owner = w

\* a read_temperature_c call on a two-point linear sensor has returned
LinearReadReturned ==
    /\ sensor.cls \in {"AnalogTemperatureSensor", "AD8495TCAmplifier"}
    /\ scall.state = "done"
    /\ scall.method = "read_temperature_c"
    /\ scall.kind = "return"

\* C12 as stated: read_temperature_c of a two-point linear sensor returns
\* gain * V + offset with gain = (t1 - t2)/(v1 - v2) and offset = gain * (-v1)
\* + t1; with the AD8495TCAmplifier defaults that is 0 at 1.25, 50 at 1.5 and
\* 25 at 1.375; and for any calibration pairs it is t1 at v1 and t2 at v2.
C12_LinearSensorHitsBothPoints ==
    LinearReadReturned =>
        LET v1 == sensor.args[1]
            t1 == sensor.args[2]
            v2 == sensor.args[3]
            t2 == sensor.args[4]
        IN  /\ sensor.gain = FDiv(FSub(t1, t2), FSub(v1, v2))
            /\ sensor.offset = FAdd(FMul(sensor.gain, FSub(Float(0, 0), v1)), t1)
            /\ scall.value = FAdd(FMul(sensor.gain, scall.input), sensor.offset)
            /\ (sensor.args = AD8495Defaults) =>
                  /\ (scall.input = Float(5, -2)) => scall.value = Float(0, 0)
                  /\ (scall.input = Float(3, -1)) => scall.value = Float(50, 0)
                  /\ (scall.input = Float(11, -3)) => scall.value = Float(25, 0)
            /\ (scall.input = v1) => scall.value = t1
            /\ (scall.input = v2) => scall.value = t2

\* C12 amended: the same, with t1 at v1 and t2 at v2 claimed for the
\* calibrations and readings whose float operations do not round (as with the
\* AD8495TCAmplifier defaults); otherwise the result is gain * V + offset as
\* the floats compute it.
C12_LinearSensorHitsBothPointsWhenExact ==
    LinearReadReturned =>
        LET v1 == sensor.args[1]
            t1 == sensor.args[2]
            v2 == sensor.args[3]
            t2 == sensor.args[4]
        IN  /\ sensor.gain = FDiv(FSub(t1, t2), FSub(v1, v2))
            /\ sensor.offset = FAdd(FMul(sensor.gain, FSub(Float(0, 0), v1)), t1)
            /\ scall.value = FAdd(FMul(sensor.gain, scall.input), sensor.offset)
            /\ (sensor.args = AD8495Defaults) =>
                  /\ (scall.input = Float(5, -2)) => scall.value = Float(0, 0)
                  /\ (scall.input = Float(3, -1)) => scall.value = Float(50, 0)
                  /\ (scall.input = Float(11, -3)) => scall.value = Float(25, 0)
            /\ NoRounding(v1, t1, v2, t2, scall.input) =>
                  /\ (scall.input = v1) => scall.value = t1
                  /\ (scall.input = v2) => scall.value = t2

\* a sensor calibrated with (2, 10, 5, 40), not the defaults, read 5.0 and
\* returned 40.0 without any rounding
C12_Witness ==
    /\ LinearReadReturned
    /\ sensor.args = <<Float(2, 0), Float(10, 0), Float(5, 0), Float(40, 0)>>
    /\ scall.input = Float(5, 0)
    /\ scall.value = Float(40, 0)
    /\ NoRounding(sensor.args[1], sensor.args[2], sensor.args[3], sensor.args[4],
                  scall.input)

\* C13: on each of the four capability interfaces, a read() made while the
\* simulated flag is set returns simulated_input without a call of _read, and
\* a write(value) made while it is set stores value in simulated_output
\* without a call of _write; made while the flag is not set, read() and
\* write(value) call _read / _write(value) exactly once and write leaves
\* simulated_output as it was. No call touches a bus.
C13_SimulatedCallsStayInMemory ==
    [][(\/ icall'.iface # icall.iface
        \/ icall' # icall
        \/ simulated_output' # simulated_output) =>
          LET c == icall'
              i == icall'.iface
          IN  /\ c.method \in {"read", "write"}
              /\ i \in (IF c.method = "read" THEN InputIfaces ELSE OutputIfaces)
              /\ UNCHANGED busVars
              /\ \A j \in OutputIfaces \ {i} : simulated_output'[j] = simulated_output[j]
              /\ (Simulated(i) /\ c.method = "read") =>
                    /\ c.hw_calls = 0
                    /\ c.kind = "return"
                    /\ c.value = simulated_input[i]
                    /\ simulated_output' = simulated_output
              /\ (Simulated(i) /\ c.method = "write") =>
                    /\ c.hw_calls = 0
                    /\ c.kind = "return"
                    /\ simulated_output'[i] = c.arg
              /\ ~Simulated(i) =>
                    /\ c.hw_calls = 1
                    /\ simulated_output' = simulated_output
                    /\ c.method = "write" => c.value = c.arg
      ]_vars

\* a simulated analog output has stored a written 1.25 without reaching _write
C13_Witness ==
    /\ icall.iface = "AnalogOutputInterface"
    /\ icall.method = "write"
    /\ icall.simulated
    /\ icall.hw_calls = 0
    /\ icall.arg = Float(5, -2)
    /\ icall.out_before = Float(0, 0)
    /\ simulated_output["AnalogOutputInterface"] = Float(5, -2)

\* C14: a thread holds a bus lock on account of an operation only while it
\* is inside the transport invocation of one attempt: at every moment its
\* level on each lock is its own outer hold, plus one exactly while it is
\* inside a transport invocation on that lock's bus. So the lock is back at
\* the caller's level when an attempt has ended, before the except clause
\* warns and before another attempt acquires it, and when the operation
\* returns or raises.
C14_LockScopesOneAttempt ==
    \A t \in Threads : \A b \in Classes : \A k \in 1..Len(locks[b]) :
        LET level == IF locks[b][k].owner = t THEN locks[b][k].count ELSE 0
            outer == IF ref[t] # NoObj /\ _get_lock(ref[t]) = <<b, k>>
                     THEN hold[t] ELSE 0
            inner == IF pc[t] = "in_transport" /\ _get_lock(op[t].h) = <<b, k>>
                     THEN 1 ELSE 0
        IN  /\ level = outer + inner
            /\ pc[t] \in {"acquire", "except", "op_done"} => level = outer
            /\ locks[b][k].count = 0 <=> locks[b][k].owner = 0

\* an attempt made inside the caller's own hold of the lock has failed and
\* the operation has raised: the lock is at the caller's one level again
C14_Witness ==
    \E t \in Threads :
        /\ pc[t] = "op_done"
        /\ result[t].kind = "raise"
        /\ fails[t] >= 1
        /\ hold[t] = 1
        /\ LockOf(_get_lock(op[t].h)) = [owner |-> t, count |-> 1]

\* C15: a thread that holds the lock of a bus through _get_lock is never
\* blocked at the lock by its own operation on that bus, whichever of the six
\* it is, and for as long as it holds the lock every other thread's attempt
\* on that bus is blocked at the lock, before its transport invocation.
C15_LockIsReentrant ==
    \A t \in Threads :
        hold[t] > 0 =>
            /\ LockOf(_get_lock(ref[t])).owner = t
            /\ pc[t] = "acquire" => ENABLED Acquire(t)
            /\ \A u \in Threads \ {t} :
                  (op[u] # NoOp /\ _get_lock(op[u].h) = _get_lock(ref[t])) =>
                      /\ pc[u] # "in_transport"
                      /\ ~ ENABLED Acquire(u)

\* inside its own hold of the lock a thread is inside a transport invocation
\* (the lock is at level 2) while another thread's operation on the same bus
\* waits at the lock
C15_Witness ==
    \E t, u \in Threads :
        /\ t # u
        /\ hold[t] = 1
        /\ pc[t] = "in_transport"
        /\ LockOf(_get_lock(op[t].h)) = [owner |-> t, count |-> 2]
        /\ pc[u] = "acquire"
        /\ op[u].h = op[t].h

\* C20: within one invocation of an operation at most one transport
\* invocation succeeds, and once one has succeeded the operation has returned
\* its value: no further attempt is pending or under way.
C20_AtMostOneSuccessfulInvocation ==
    \A t \in Threads :
        /\ calls[t] - fails[t] \in {0, 1}
        /\ pc[t] \in {"acquire", "in_transport", "except"} => calls[t] = fails[t]
        /\ calls[t] - fails[t] = 1 =>
              /\ pc[t] = "op_done"
              /\ result[t].kind = "return"
              /\ ~ result[t].fellthrough
              /\ result[t].value \in
                    {o.value : o \in {x \in BodyOutcomes(
                                          TransportOf(Handle(op[t].h).bus).kind,
                                          op[t].name, op[t].length, calls[t]) : x.ok}}

\* a read16 has returned the value of its one, successful transport invocation
C20_Witness ==
    \E t \in Threads :
        /\ pc[t] = "op_done"
        /\ op[t].name = "read16"
        /\ calls[t] = 1
        /\ fails[t] = 0
        /\ result[t].kind = "return"
        /\ result[t].value # None

\* C16: between a failed attempt of thread a and a's next attempt of the same
\* operation, thread b can perform a complete successful transaction on the
\* same bus.  For that interleaving a's operation must go on to a next attempt
\* after its failed one: where a's attempt failed and b has completed a
\* successful transaction on the same bus, a's operation has not ended with
\* that one attempt.
C16_NextAttemptFollowsFailedAttempt ==
    \A a, b \in Threads :
        (/\ a # b
         /\ op[a] # NoOp /\ op[b] # NoOp
         /\ op[a].h = op[b].h
         /\ TransportOf(Handle(op[a].h).bus).kind = "real"
         /\ fails[a] = 1
         /\ pc[b] = "op_done" /\ result[b].kind = "return" /\ calls[b] = 1) =>
            ~ (pc[a] = "op_done" /\ result[a].kind = "raise")

\* C17: with transport invocations that terminate and a fair lock, every
\* started operation eventually returns or raises, whatever the other threads
\* on the same bus do and however the transport fails.
C17_EveryOperationEnds ==
    \A t \in Threads :
        (pc[t] \in {"acquire", "in_transport", "except"}) ~> (pc[t] = "op_done")

\* a thread waits at the lock of the bus on which another thread's attempt
\* has just failed
C17_Witness ==
    \E t, u \in Threads :
        /\ t # u
        /\ pc[t] = "except"
        /\ fails[t] = 1
        /\ pc[u] = "acquire"
        /\ op[u].h = op[t].h

\* C19: a call of read_temperature_k, _c or _f on a Thermistor or an
\* AnalogTemperatureSensor performs exactly one read() on its interface: while
\* it runs, no method is entered twice (the unit conversions do not call each
\* other in a circle) and nothing was read yet; when it has ended, one read()
\* was made, and a read() that failed has made the sensor call fail with the
\* read's error.
C19_SensorCallReadsOnce ==
    /\ scall.state = "running" =>
          /\ scall.reads = 0
          /\ scall.stack[1] = scall.method
          /\ \A i, j \in 1..Len(scall.stack) :
                i # j => scall.stack[i] # scall.stack[j]
    /\ (scall.state = "done" /\ scall.method \in Methods) =>
          /\ scall.reads = 1
          /\ scall.kind \in {"return", "raise"}
          /\ scall.err = "ReadError" => scall.kind = "raise"
          /\ scall.kind = "return" => scall.err = "none"

\* read_temperature_f on a Thermistor went through read_temperature_c and
\* read_temperature_k to the one read(), which failed, and so did the call
C19_Witness ==
    /\ sensor.cls = "Thermistor"
    /\ scall.state = "done"
    /\ scall.method = "read_temperature_f"
    /\ scall.stack = <<"read_temperature_f", "read_temperature_c", "read_temperature_k">>
    /\ scall.reads = 1
    /\ scall.kind = "raise"
    /\ scall.err = "ReadError"

\* C18: the debug flag is purely observational: two invocations of the same
\* operation with the same arguments whose transport invocations end the same
\* way, as far as the shorter of the two got, have made the same transport
\* invocations and ended with the same result, whatever BBI2CBus.DEBUG was
\* while each of them ran.
C18_DebugFlagIsObservational ==
    \A t, u \in Threads :
        (/\ pc[t] = "op_done" /\ pc[u] = "op_done"
         /\ op[t].name = op[u].name
         /\ op[t].length = op[u].length
         /\ Len(outs[t]) <= Len(outs[u])
         /\ \A i \in 1..Len(outs[t]) : outs[t][i] = outs[u][i]) =>
            /\ outs[t] = outs[u]
            /\ calls[t] = calls[u]
            /\ fails[t] = fails[u]
            /\ result[t] = result[u]

\* the same read8 was run with the flag set (it logged the value) and with
\* the flag clear (it logged nothing), and returned the same value
C18_Witness ==
    \E t, u \in Threads :
        /\ pc[t] = "op_done" /\ pc[u] = "op_done"
        /\ op[t].name = "read8" /\ op[u].name = "read8"
        /\ outs[t] = outs[u]
        /\ Len(outs[t]) = 1
        /\ trace[t] = <<DebugEvent("read8", result[t].value)>>
        /\ trace[u] = <<>>
        /\ result[t].kind = "return"
        /\ result[t] = result[u]

====
